---- MODULE Spec2Model ----
(***************************************************************************)
(* create-frontend-setup: the CLI front end (bin/cli.mjs) and the          *)
(* scaffolder (src/scaffold.mjs) as a state machine.                       *)
(*                                                                         *)
(* The state is the file system below the working directory, the child     *)
(* processes, the two output streams, the position of the single thread of *)
(* control and the promises it has in flight.  Paths are sequences of      *)
(* segments relative to process.cwd(); path.resolve(process.cwd(), name)   *)
(* is <<name>>.  A behaviour is a bounded number of CLI invocations, one   *)
(* after the other, over the same file system.                             *)
(*                                                                         *)
(* The external generator and the package managers are opaque: each child  *)
(* exits with success or failure and leaves one of a few file-system       *)
(* outcomes.  readdir of an existing directory is taken to succeed.        *)
(***************************************************************************)
EXTENDS Integers, Sequences, FiniteSets, TLC

VARIABLES
  run,       \* number of CLI invocations started so far
  req,       \* the ScaffoldRequest of the current invocation
  pc,        \* position of the thread of control
  idx,       \* install sub-step (1..3) or file index (1..17) at pc
  awaited,   \* the child the thread is suspended on, or None
  alive,     \* child processes started and not yet exited
  pending,   \* mkdirp calls of the Promise.all not yet settled
  dirs,      \* directories of the file system
  files,     \* files of the file system: path -> content
  err,       \* the error propagating to the CLI's catch, or NoErr
  stdout,    \* lines written by console.log in this invocation
  stderr,    \* lines written by console.error in this invocation
  exitCode,  \* status the current process exits with (read once pc = "done")
  spawned,   \* history: child invocations of this run, in order
  ensured,   \* history: directories a mkdirp of this run has ensured
  written,   \* history: files this run has written, in order
  stages,    \* history: stages this run has begun, in order
  before     \* history: the file system when this run started

vars == <<run, req, pc, idx, awaited, alive, pending, dirs, files, err,
          stdout, stderr, exitCode, spawned, ensured, written, stages,
          before>>

-----------------------------------------------------------------------------
\* Bounds of the model.

\* CLI invocations in one behaviour.
MaxRuns == 2

\* --package-manager values tried: the four supported ones and one other.
PackageManagers == {"npm", "pnpm", "yarn", "bun", "deno"}

\* The command lines tried; every invocation of a behaviour repeats the same
\* one.  install is opts.install: TRUE unless --no-install is given.
Requests ==
  [appName : {"demo"}, packageManager : PackageManagers, install : BOOLEAN]
    \cup {[appName |-> "app", packageManager |-> "npm", install |-> TRUE]}

None == "none"
NoErr == [kind |-> "none", text |-> <<>>]

-----------------------------------------------------------------------------
\* Paths.

Prefixes(p) == {SubSeq(p, 1, n) : n \in 1..Len(p)}
Parent(p) == SubSeq(p, 1, Len(p) - 1)
IsUnder(q, p) == Len(q) > Len(p) /\ SubSeq(q, 1, Len(p)) = p

\* process.cwd() and path.resolve(process.cwd(), appName)
Cwd == <<>>
AppDir(appName) == Cwd \o <<appName>>

\* const src = path.join(appDir, "src")
SrcDir(appName) == AppDir(appName) \o <<"src">>

-----------------------------------------------------------------------------
\* The file system layer (fs-extra), as scaffold uses it.

\* fs.pathExists(p)
pathExists(p) == p \in dirs \/ p \in DOMAIN files

\* fs.readdir(p), for p a directory: the names directly below p
readdir(p) == {q \in dirs \cup DOMAIN files : Len(q) = Len(p) + 1 /\ IsUnder(q, p)}

\* fs.mkdirp(p) can succeed: no segment of p is a file
CanMkdirp(p) == Prefixes(p) \cap DOMAIN files = {}

\* directories after a successful fs.mkdirp(p): p and its missing ancestors
Mkdirp(ds, p) == ds \cup Prefixes(p)

\* fs.writeFile(p, data) can succeed: the parent is a directory (writeFile
\* creates no directory) and p itself is not one
CanWriteFile(p) == Parent(p) \in dirs /\ p \notin dirs

\* files after a successful fs.writeFile(p, data)
WriteFile(fs, p, data) ==
  [q \in DOMAIN fs \cup {p} |-> IF q = p THEN data ELSE fs[q]]

FsError(code, syscall, p) ==
  [kind |-> "fs", text |-> <<code, syscall>> \o p]

-----------------------------------------------------------------------------
\* scaffold, step 0: the target directory.

\* new Error(`Directory '${appName}' already exists and is not empty.`)
NotEmptyError(appName) ==
  [kind |-> "precondition",
   text |-> <<"Directory", appName, "already exists and is not empty.">>]

\* the check left out: a populated directory is accepted
TargetNeverRejected(entries) == FALSE

\* if (files.length) throw ...
TargetRejected(entries) == entries # {}

-----------------------------------------------------------------------------
\* scaffold, step 1: the generator command.

\* viteArgsByPM
viteArgsByPM(appName) ==
  [npm  |-> <<"create", "vite@latest", appName, "--", "--template", "react">>,
   pnpm |-> <<"create", "vite", appName, "--template", "react">>,
   yarn |-> <<"create", "vite", appName, "--template", "react">>,
   bun  |-> <<"x", "create-vite", appName, "--template", "react">>]

\* the executable taken from the option without the fallback
GeneratorCmdRaw(packageManager) == packageManager

\* let cmd = "npm"; if (packageManager === "pnpm") cmd = "pnpm"; else if ...
GeneratorCmd(packageManager) ==
  IF packageManager = "pnpm" THEN "pnpm"
  ELSE IF packageManager = "yarn" THEN "yarn"
  ELSE IF packageManager = "bun" THEN "bun"
  ELSE "npm"

\* let args = viteArgsByPM.npm; if (packageManager === "pnpm") args = ...
GeneratorArgs(packageManager, appName) ==
  IF packageManager = "pnpm" THEN viteArgsByPM(appName).pnpm
  ELSE IF packageManager = "yarn" THEN viteArgsByPM(appName).yarn
  ELSE IF packageManager = "bun" THEN viteArgsByPM(appName).bun
  ELSE viteArgsByPM(appName).npm

\* run(cmd, args, { cwd: process.cwd() })
GeneratorChild(r) ==
  [step |-> "generator",
   cmd  |-> GeneratorCmd(r.packageManager),
   args |-> GeneratorArgs(r.packageManager, r.appName),
   cwd  |-> Cwd]

-----------------------------------------------------------------------------
\* scaffold, step 2: the install sub-steps.

InstallArgs ==
  <<  <<"install">>,
      <<"add", "-D", "sass">>,
      <<"add", "@reduxjs/toolkit", "react-redux", "axios", "react-hot-toast">>  >>

InstallStepNames == <<"install", "addDev", "addDeps">>

\* the install sub-steps run with the generator's executable
InstallCmdAsGenerator(packageManager) == GeneratorCmd(packageManager)

\* the executable of run(packageManager, [...], { cwd: appDir })
InstallCmd(packageManager) == packageManager

\* the k-th run(packageManager, [...], { cwd: appDir })
InstallChild(r, k) ==
  [step |-> InstallStepNames[k],
   cmd  |-> InstallCmd(r.packageManager),
   args |-> InstallArgs[k],
   cwd  |-> AppDir(r.appName)]

\* the install flag ignored
InstallAlways(r) == TRUE

\* if (install) { ... }
InstallEnabled(r) == r.install

-----------------------------------------------------------------------------
\* scaffold, step 3: the folder tree.

\* the folder tree without the hooks directory
MkdirArgsNoHooks ==
  { <<"__tests__">>, <<"assets">>, <<"components", "UserControls">>,
    <<"external">>, <<"helpers">>, <<"redux">>,
    <<"styles", "abstract">>, <<"styles", "pages">> }

\* the arguments of mk in the Promise.all, as segments below src
MkdirArgs ==
  { <<"__tests__">>, <<"assets">>, <<"components", "UserControls">>,
    <<"external">>, <<"helpers">>, <<"hooks">>, <<"redux">>,
    <<"styles", "abstract">>, <<"styles", "pages">> }

\* const mk = p => fs.mkdirp(path.join(src, p))
MkPath(appName, p) == SrcDir(appName) \o p

\* fs.mkdirp(path.join(appDir, "public"))
PublicDir(appName) == AppDir(appName) \o <<"public">>

-----------------------------------------------------------------------------
\* scaffold, step 4: the files, in the order of the fs.writeFile calls.  Each
\* entry is the path below appDir and the length of the template string.

FileTable ==
  << [path |-> <<"src", "HomeLayout.jsx">>,                     len |-> 730],
     [path |-> <<"src", "helpers", "helperFunctions.js">>,      len |-> 56],
     [path |-> <<"src", "helpers", "screenMappers.jsx">>,       len |-> 48],
     [path |-> <<"src", "hooks", "useGlobalHook.js">>,          len |-> 239],
     [path |-> <<"src", "redux", "initialState.js">>,           len |-> 79],
     [path |-> <<"src", "redux", "globalSlice.js">>,            len |-> 394],
     [path |-> <<"src", "redux", "store.js">>,                  len |-> 183],
     [path |-> <<"src", "external", "customAxiosInstance.js">>, len |-> 123],
     [path |-> <<"src", "external", "api.js">>,                 len |-> 636],
     [path |-> <<"src", "__tests__", "setup.js">>,              len |-> 21],
     [path |-> <<"public", "config.json">>,                     len |-> 45],
     [path |-> <<"src", "styles", "abstract", "_colors.scss">>, len |-> 114],
     [path |-> <<"src", "styles", "abstract", "_variables.scss">>, len |-> 277],
     [path |-> <<"src", "styles", "abstract", "_mixins.scss">>, len |-> 1357],
     [path |-> <<"src", "styles", "_main.scss">>,               len |-> 573],
     [path |-> <<"src", "App.jsx">>,                            len |-> 932],
     [path |-> <<"src", "main.jsx">>,                           len |-> 343] >>

\* the path of the i-th fs.writeFile
FilePath(appName, i) == AppDir(appName) \o FileTable[i].path

\* the data of the i-th fs.writeFile
FileData(i) == [by |-> "scaffold", len |-> FileTable[i].len]

\* returning before the last fs.writeFile
FileCountShort == Len(FileTable) - 1

\* the number of fs.writeFile calls of scaffold
FileCount == Len(FileTable)

-----------------------------------------------------------------------------
\* The child processes.  A child is the record of its run(...) call.

\* the rejection of execa for a child that failed or could not be spawned
ProcessError(c) ==
  [kind |-> "process", text |-> <<"Command failed:", c.cmd>> \o c.args]

\* run(...) without the await
AwaitsNothing(c) == None

\* await run(...): the thread is suspended on the child it has just started
Awaits(c) == c.step

\* What the generator can leave below the target directory.
GeneratorEffects(ok) == IF ok THEN {"full", "bare"} ELSE {"nothing", "bare"}

GenContent == [by |-> "generator", len |-> 1]

GeneratedDirs(appName, effect) ==
  IF effect = "full"
    THEN {AppDir(appName), SrcDir(appName), PublicDir(appName)}
  ELSE IF effect = "bare" THEN {AppDir(appName)}
  ELSE {}

GeneratedFiles(appName, effect) ==
  IF effect = "full"
    THEN {AppDir(appName) \o <<"package.json">>,
          SrcDir(appName) \o <<"main.jsx">>, SrcDir(appName) \o <<"App.jsx">>}
  ELSE IF effect = "bare" THEN {AppDir(appName) \o <<"package.json">>}
  ELSE {}

\* What a package-manager sub-step can leave below the target directory.
InstallEffects(ok) == IF ok THEN {"modules"} ELSE {"nothing", "modules"}

InstalledDirs(appName, effect) ==
  IF effect = "modules"
    THEN {AppDir(appName), AppDir(appName) \o <<"node_modules">>}
  ELSE {}

ChildEffects(c, ok) ==
  IF c.step = "generator" THEN GeneratorEffects(ok) ELSE InstallEffects(ok)

DirsAfterChild(c, effect) ==
  IF c.step = "generator"
    THEN dirs \cup GeneratedDirs(req.appName, effect)
    ELSE dirs \cup InstalledDirs(req.appName, effect)

FilesAfterChild(c, effect) ==
  IF c.step = "generator"
    THEN [q \in DOMAIN files \cup GeneratedFiles(req.appName, effect) |->
            IF q \in GeneratedFiles(req.appName, effect)
              THEN GenContent ELSE files[q]]
    ELSE files

-----------------------------------------------------------------------------
\* Control flow.

\* the stages of a run, in the order scaffold and the CLI go through them
Begin(stage) ==
  stages' = IF stages # <<>> /\ stages[Len(stages)] = stage
              THEN stages ELSE Append(stages, stage)

\* a failed step left to be issued again
RejectRetry(e) == pc' = pc /\ err' = e

\* a rejected await: scaffold has no try/catch, so the error is the
\* rejection of scaffold(...) and control is in the CLI's catch block
Reject(e) == pc' = "catch" /\ err' = e

\* where scaffold continues once the awaited child has exited with success
AfterChild(c) ==
  IF c.step = "generator"
    THEN IF InstallEnabled(req) THEN [pc |-> "install", idx |-> 1]
                                ELSE [pc |-> "mkdirs", idx |-> 0]
  ELSE IF idx < Len(InstallArgs) THEN [pc |-> "install", idx |-> idx + 1]
  ELSE [pc |-> "mkdirs", idx |-> 0]

\* resuming on the first mkdirp to resolve
PromiseAllFirst(remaining) == TRUE

\* await Promise.all([...]) resumes once every mkdirp has resolved
PromiseAllResolved(remaining) == remaining = {}

\* err?.message || err
Message(e) == e.text

\* the catch block ending the process with the status of success
CatchExitZero(e) == 0

\* process.exit(1)
CatchExit(e) == 1

\* console.log("\\n Scaffolded Redux, hooks, API, Toaster, and SCSS successfully.")
ScaffoldMessage == <<"Scaffolded Redux, hooks, API, Toaster, and SCSS successfully.">>

\* console.log(`\n Done. Next:\n  cd ${appName}\n  ${opts.packageManager} run dev\n`)
DoneMessage(r) == <<"Done. Next:", "cd", r.appName, r.packageManager, "run dev">>

\* console.error("\n Scaffold failed:", err?.message || err)
FailedMessage(e) == <<"Scaffold failed:">> \o Message(e)

-----------------------------------------------------------------------------
\* The file systems a first invocation can find: no target, an empty target
\* directory, a target directory with something in it, a file at the target.

UserContent == [by |-> "user", len |-> 0]
EmptyFiles == [q \in {} |-> UserContent]

InitialFileSystems(appName) ==
  { [dirs |-> {}, files |-> EmptyFiles],
    [dirs |-> {AppDir(appName)}, files |-> EmptyFiles],
    [dirs |-> {AppDir(appName)},
     files |-> [q \in {AppDir(appName) \o <<"notes.txt">>} |-> UserContent]],
    [dirs |-> {AppDir(appName), AppDir(appName) \o <<"old">>},
     files |-> EmptyFiles],
    [dirs |-> {}, files |-> [q \in {AppDir(appName)} |-> UserContent]] }

Init ==
  /\ run = 0
  /\ req \in Requests
  /\ pc = "idle"
  /\ idx = 0
  /\ awaited = None
  /\ alive = {}
  /\ pending = {}
  /\ \E fs \in InitialFileSystems(req.appName) :
       /\ dirs = fs.dirs
       /\ files = fs.files
       /\ before = fs
  /\ err = NoErr
  /\ stdout = <<>>
  /\ stderr = <<>>
  /\ exitCode = 0
  /\ spawned = <<>>
  /\ ensured = {}
  /\ written = <<>>
  /\ stages = <<>>

-----------------------------------------------------------------------------
\* The CLI is invoked: commander parses the command line and the action
\* calls scaffold, which resolves appDir and awaits fs.pathExists(appDir).
Invoke ==
  /\ pc \in {"idle", "done"}
  /\ run < MaxRuns
  /\ run' = run + 1
  /\ pc' = "pathExists"
  /\ idx' = 0
  /\ awaited' = None
  /\ err' = NoErr
  /\ stdout' = <<>>
  /\ stderr' = <<>>
  /\ exitCode' = 0
  /\ spawned' = <<>>
  /\ ensured' = {}
  /\ written' = <<>>
  /\ stages' = <<>>
  /\ before' = [dirs |-> dirs, files |-> files]
  /\ UNCHANGED <<req, alive, pending, dirs, files>>

\* if (await fs.pathExists(appDir)) ... else ...
CheckTarget ==
  /\ pc = "pathExists"
  /\ Begin("check")
  /\ pc' = IF pathExists(AppDir(req.appName)) THEN "readdir" ELSE "mkdirpApp"
  /\ UNCHANGED <<run, req, idx, awaited, alive, pending, dirs, files, err,
                 stdout, stderr, exitCode, spawned, ensured, written, before>>

\* const files = await fs.readdir(appDir); if (files.length) throw ...
ReadTarget ==
  /\ pc = "readdir"
  /\ IF AppDir(req.appName) \notin dirs
       THEN Reject(FsError("ENOTDIR", "scandir", AppDir(req.appName)))
     ELSE IF TargetRejected(readdir(AppDir(req.appName)))
       THEN Reject(NotEmptyError(req.appName))
     ELSE pc' = "generator" /\ err' = err
  /\ UNCHANGED <<run, req, idx, awaited, alive, pending, dirs, files,
                 stdout, stderr, exitCode, spawned, ensured, written, stages,
                 before>>

\* await fs.mkdirp(appDir)
MakeTarget ==
  /\ pc = "mkdirpApp"
  /\ \E ok \in BOOLEAN :
       IF ok /\ CanMkdirp(AppDir(req.appName))
         THEN /\ dirs' = Mkdirp(dirs, AppDir(req.appName))
              /\ ensured' = ensured \cup Prefixes(AppDir(req.appName))
              /\ pc' = "generator"
              /\ err' = err
         ELSE /\ Reject(FsError("EACCES", "mkdir", AppDir(req.appName)))
              /\ UNCHANGED <<dirs, ensured>>
  /\ UNCHANGED <<run, req, idx, awaited, alive, pending, files,
                 stdout, stderr, exitCode, spawned, written, stages, before>>

\* run(c.cmd, c.args, { cwd: c.cwd }) starts the child; with the await the
\* thread stays at the call until the child exits
Start(c) ==
  /\ awaited = None
  /\ alive' = alive \cup {c}
  /\ spawned' = Append(spawned, c)
  /\ awaited' = Awaits(c)
  /\ IF Awaits(c) = None
       THEN pc' = AfterChild(c).pc /\ idx' = AfterChild(c).idx
       ELSE UNCHANGED <<pc, idx>>
  /\ UNCHANGED <<run, req, pending, dirs, files, err, stdout, stderr,
                 exitCode, ensured, written, before>>

\* await run(cmd, args, { cwd: process.cwd() })
SpawnGenerator ==
  /\ pc = "generator"
  /\ Begin("generator")
  /\ Start(GeneratorChild(req))

\* if (install) { await run(packageManager, [...], { cwd: appDir }); ... }
SpawnInstall ==
  /\ pc = "install"
  /\ Begin("install")
  /\ Start(InstallChild(req, idx))

\* A child exits, with status 0 or not, having left its effect on disk.  The
\* thread suspended on it resumes, or the await rejects.
ChildExit ==
  \E c \in alive, ok \in BOOLEAN :
    \E effect \in ChildEffects(c, ok) :
      /\ alive' = alive \ {c}
      /\ dirs' = DirsAfterChild(c, effect)
      /\ files' = FilesAfterChild(c, effect)
      /\ IF awaited # c.step \/ pc = "done"
           THEN UNCHANGED <<pc, idx, awaited, err>>
         ELSE IF ok
           THEN /\ pc' = AfterChild(c).pc
                /\ idx' = AfterChild(c).idx
                /\ awaited' = None
                /\ err' = err
         ELSE /\ Reject(ProcessError(c))
              /\ awaited' = None
              /\ idx' = idx
      /\ UNCHANGED <<run, req, pending, stdout, stderr, exitCode, spawned,
                     ensured, written, stages, before>>

\* await Promise.all([mk("__tests__"), ...]): the nine mkdirp calls are
\* issued together
IssueMkdirs ==
  /\ pc = "mkdirs"
  /\ Begin("folders")
  /\ pending' = MkdirArgs
  /\ pc' = "mkdirsWait"
  /\ UNCHANGED <<run, req, idx, awaited, alive, dirs, files, err, stdout,
                 stderr, exitCode, spawned, ensured, written, before>>

\* One mkdirp of the Promise.all creates its directory, in any order with
\* the others; the await resumes after the last one.  A mkdirp still in
\* flight when another has failed completes all the same.
MkdirDone ==
  \E p \in pending :
    /\ CanMkdirp(MkPath(req.appName, p))
    /\ pending' = pending \ {p}
    /\ dirs' = Mkdirp(dirs, MkPath(req.appName, p))
    /\ ensured' = ensured \cup Prefixes(MkPath(req.appName, p))
    /\ pc' = IF pc = "mkdirsWait" /\ PromiseAllResolved(pending \ {p})
               THEN "mkPublic" ELSE pc
    /\ UNCHANGED <<run, req, idx, awaited, alive, files, err, stdout, stderr,
                   exitCode, spawned, written, stages, before>>

\* One mkdirp of the Promise.all fails: the Promise.all rejects at once.
MkdirFail ==
  \E p \in pending :
    /\ pc = "mkdirsWait"
    /\ pending' = pending \ {p}
    /\ Reject(FsError("EACCES", "mkdir", MkPath(req.appName, p)))
    /\ UNCHANGED <<run, req, idx, awaited, alive, dirs, files, stdout, stderr,
                   exitCode, spawned, ensured, written, stages, before>>

\* await fs.mkdirp(path.join(appDir, "public"))
MakePublic ==
  /\ pc = "mkPublic"
  /\ Begin("folders")
  /\ \E ok \in BOOLEAN :
       IF ok /\ CanMkdirp(PublicDir(req.appName))
         THEN /\ dirs' = Mkdirp(dirs, PublicDir(req.appName))
              /\ ensured' = ensured \cup Prefixes(PublicDir(req.appName))
              /\ pc' = "write"
              /\ idx' = 1
              /\ err' = err
         ELSE /\ Reject(FsError("EACCES", "mkdir", PublicDir(req.appName)))
              /\ UNCHANGED <<dirs, ensured, idx>>
  /\ UNCHANGED <<run, req, awaited, alive, pending, files, stdout, stderr,
                 exitCode, spawned, written, before>>

\* await fs.writeFile(path, data), the idx-th of the seventeen
WriteNext ==
  /\ pc = "write"
  /\ Begin("files")
  /\ \E ok \in BOOLEAN :
       IF ok /\ CanWriteFile(FilePath(req.appName, idx))
         THEN /\ files' = WriteFile(files, FilePath(req.appName, idx),
                                     FileData(idx))
              /\ written' = Append(written, FilePath(req.appName, idx))
              /\ IF idx < FileCount
                   THEN pc' = pc /\ idx' = idx + 1
                   ELSE pc' = "scaffoldLog" /\ idx' = 0
              /\ err' = err
         ELSE /\ Reject(FsError(IF CanWriteFile(FilePath(req.appName, idx))
                                   THEN "EACCES" ELSE "ENOENT",
                                 "open", FilePath(req.appName, idx)))
              /\ UNCHANGED <<files, written, idx>>
  /\ UNCHANGED <<run, req, awaited, alive, pending, dirs, stdout, stderr,
                 exitCode, spawned, ensured, before>>

\* console.log("... successfully."); scaffold returns
ScaffoldLog ==
  /\ pc = "scaffoldLog"
  /\ Begin("scaffoldMsg")
  /\ stdout' = Append(stdout, ScaffoldMessage)
  /\ pc' = "cliLog"
  /\ UNCHANGED <<run, req, idx, awaited, alive, pending, dirs, files, err,
                 stderr, exitCode, spawned, ensured, written, before>>

\* console.log(`Done. Next: ...`); the action returns and the process ends
\* with the default status
CliLog ==
  /\ pc = "cliLog"
  /\ Begin("cliMsg")
  /\ stdout' = Append(stdout, DoneMessage(req))
  /\ pc' = "done"
  /\ pending' = {}
  /\ UNCHANGED <<run, req, idx, awaited, alive, dirs, files, err, stderr,
                 exitCode, spawned, ensured, written, before>>

\* catch (err) { console.error("Scaffold failed:", ...); process.exit(1); }
Catch ==
  /\ pc = "catch"
  /\ stderr' = Append(stderr, FailedMessage(err))
  /\ exitCode' = CatchExit(err)
  /\ pc' = "done"
  /\ pending' = {}
  /\ UNCHANGED <<run, req, idx, awaited, alive, dirs, files, err, stdout,
                 spawned, ensured, written, stages, before>>

Next ==
  \/ Invoke
  \/ CheckTarget
  \/ ReadTarget
  \/ MakeTarget
  \/ SpawnGenerator
  \/ SpawnInstall
  \/ ChildExit
  \/ IssueMkdirs
  \/ MkdirDone
  \/ MkdirFail
  \/ MakePublic
  \/ WriteNext
  \/ ScaffoldLog
  \/ CliLog
  \/ Catch

Spec == Init /\ [][Next]_vars

-----------------------------------------------------------------------------
\* Vocabulary of the properties.

Range(f) == {f[i] : i \in DOMAIN f}
Last(f) == f[Len(f)]

Target == <<req.appName>>
Under(p) == Target \o p

\* the target directory held at least one entry when this run started
TargetWasNonEmpty ==
  /\ Target \in before.dirs
  /\ \E q \in before.dirs \cup DOMAIN before.files :
       Len(q) = 2 /\ q[1] = req.appName

\* scaffold has returned to the CLI without an error
ScaffoldSucceeded == run >= 1 /\ pc \in {"cliLog", "done"} /\ err = NoErr

\* the process of the current invocation has ended
Exited == run >= 1 /\ pc = "done"

\* the folders of Step 4, below the target directory
StepFourFolders ==
  { <<"src", "__tests__">>, <<"src", "assets">>,
    <<"src", "components", "UserControls">>, <<"src", "external">>,
    <<"src", "helpers">>, <<"src", "hooks">>, <<"src", "redux">>,
    <<"src", "styles", "abstract">>, <<"src", "styles", "pages">>,
    <<"public">> }

\* the files of Step 5, below the target directory
StepFiveFiles ==
  { <<"src", "HomeLayout.jsx">>, <<"src", "helpers", "helperFunctions.js">>,
    <<"src", "helpers", "screenMappers.jsx">>,
    <<"src", "hooks", "useGlobalHook.js">>,
    <<"src", "redux", "initialState.js">>, <<"src", "redux", "globalSlice.js">>,
    <<"src", "redux", "store.js">>,
    <<"src", "external", "customAxiosInstance.js">>,
    <<"src", "external", "api.js">>, <<"src", "__tests__", "setup.js">>,
    <<"public", "config.json">>,
    <<"src", "styles", "abstract", "_colors.scss">>,
    <<"src", "styles", "abstract", "_variables.scss">>,
    <<"src", "styles", "abstract", "_mixins.scss">>,
    <<"src", "styles", "_main.scss">>, <<"src", "App.jsx">>,
    <<"src", "main.jsx">> }

\* a file that this tool has written with content
WrittenNonEmpty(p) ==
  /\ p \in DOMAIN files
  /\ files[p].by = "scaffold"
  /\ files[p].len > 0
  /\ p \in Range(written)

AllFoldersMade ==
  \A d \in StepFourFolders : Under(d) \in ensured /\ Under(d) \in dirs

AllFilesWritten == \A f \in StepFiveFiles : WrittenNonEmpty(Under(f))

IsInstallStep(c) == c.step \in {"install", "addDev", "addDeps"}

-----------------------------------------------------------------------------
\* C1: a run that finds the target directory with at least one entry (a
\* repeat run after a successful one included) can only check the directory
\* and fail: it spawns no child, creates no directory, writes no file, leaves
\* the file system exactly as it found it, and the error it fails with is
\* the "not empty" error whose message contains the requested app name.
C1_NonEmptyTargetFailsFirst ==
  (run >= 1 /\ TargetWasNonEmpty) =>
    /\ pc \in {"pathExists", "readdir", "catch", "done"}
    /\ spawned = <<>> /\ alive = {}
    /\ ensured = {} /\ written = <<>> /\ pending = {}
    /\ dirs = before.dirs /\ files = before.files
    /\ pc \in {"catch", "done"} =>
         /\ err.kind = "precondition"
         /\ \E i \in DOMAIN err.text : err.text[i] = req.appName

\* a second run for the same name, after a first run that wrote every file,
\* has failed on the populated directory
C1_Witness ==
  /\ run = 2 /\ pc = "done"
  /\ err.kind = "precondition"
  /\ \A f \in StepFiveFiles : Under(f) \in DOMAIN before.files

-----------------------------------------------------------------------------
\* C2: when the process has ended, its status is 0 exactly if scaffold
\* completed without error; after a failure the error stream holds the
\* failure's message, the success message was not printed and the status
\* is 1.
C2_ExitStatus ==
  Exited =>
    /\ exitCode \in {0, 1}
    /\ exitCode = 0 <=> (err = NoErr /\ ScaffoldMessage \in Range(stdout))
    /\ err # NoErr =>
         /\ stderr = << <<"Scaffold failed:">> \o err.text >>
         /\ stdout = <<>>
         /\ exitCode = 1
    /\ err = NoErr => stderr = <<>> /\ Last(stdout)[1] = "Done. Next:"

\* a run has ended with status 1 after a file write failed
C2_Witness ==
  /\ Exited /\ exitCode = 1
  /\ err.kind = "fs" /\ written # <<>>

-----------------------------------------------------------------------------
\* C3: the generator invocation is the one the package-manager value
\* selects, the npm one for any value outside the four, and it runs in the
\* current working directory with the app name among its arguments.
ClaimedGenerator(pm, a) ==
  IF pm = "pnpm" THEN <<"pnpm", "create", "vite", a, "--template", "react">>
  ELSE IF pm = "yarn" THEN <<"yarn", "create", "vite", a, "--template", "react">>
  ELSE IF pm = "bun" THEN <<"bun", "x", "create-vite", a, "--template", "react">>
  ELSE <<"npm", "create", "vite@latest", a, "--", "--template", "react">>

C3_GeneratorInvocation ==
  /\ \A c \in Range(spawned) \cup alive :
       c.step = "generator" =>
         /\ <<c.cmd>> \o c.args =
              ClaimedGenerator(req.packageManager, req.appName)
         /\ c.cwd = <<>>
         /\ req.appName \in Range(c.args)
  /\ spawned # <<>> => spawned[1].step = "generator"

\* the generator has run to success for a value outside the four
C3_Witness ==
  /\ req.packageManager = "deno"
  /\ spawned # <<>> /\ spawned[1].cmd = "npm"
  /\ pc = "mkdirs"

-----------------------------------------------------------------------------
\* C4: with install false the generator is the only child process of the
\* run, and a run that succeeds has still made every folder of Step 4 and
\* written every file of Step 5.
C4_NoInstall ==
  ~req.install =>
    /\ \A c \in Range(spawned) \cup alive : ~IsInstallStep(c)
    /\ Len(spawned) <= 1
    /\ pc # "install"
    /\ ScaffoldSucceeded => AllFoldersMade /\ AllFilesWritten

\* a --no-install run with yarn has ended with success
C4_Witness ==
  /\ ~req.install /\ req.packageManager = "yarn"
  /\ Exited /\ exitCode = 0
  /\ Len(spawned) = 1

-----------------------------------------------------------------------------
\* C5: once a step of a run has failed, the run spawns no further child and
\* writes no further file, the error stays the one of the step that failed
\* until the CLI has printed it, no step is issued twice, and no step of a
\* run, before or after the failure, removes a directory or a file.

\* the error is the one of the step the run had reached: every earlier step
\* was issued once and had succeeded
ErrorOfFailedStep ==
  /\ err.kind = "process" =>
       /\ spawned # <<>>
       /\ err.text = <<"Command failed:", Last(spawned).cmd>> \o Last(spawned).args
       /\ ensured \subseteq {Target} /\ written = <<>>
  /\ (err.kind = "fs" /\ err.text[2] = "open") =>
       /\ Len(written) < Cardinality(StepFiveFiles)
       /\ Range(written) \cap {SubSeq(err.text, 3, Len(err.text))} = {}
       /\ SubSeq(err.text, 3, Len(err.text)) \in {Under(f) : f \in StepFiveFiles}
  /\ (err.kind = "fs" /\ err.text[2] # "open") => written = <<>>
  /\ err.kind = "precondition" => spawned = <<>> /\ written = <<>>

NoStepTwice ==
  /\ \A i, j \in DOMAIN spawned : spawned[i].step = spawned[j].step => i = j
  /\ \A i, j \in DOMAIN written : written[i] = written[j] => i = j

C5_FirstFailureAborts ==
  [][ /\ (err # NoErr /\ run' = run) =>
           /\ spawned' = spawned
           /\ alive' = alive
           /\ written' = written
           /\ files' = files
           /\ err' = err
           /\ pc' \in {"catch", "done"}
      /\ err' # NoErr => ErrorOfFailedStep'
      /\ (err' # NoErr /\ pc' = "done") =>
           stderr' = << <<"Scaffold failed:">> \o err'.text >>
      /\ NoStepTwice'
      /\ dirs \subseteq dirs'
      /\ DOMAIN files \subseteq DOMAIN files'
    ]_vars

\* the second install sub-step has failed after the generator and the first
\* one had left their files, and the process has ended with all of it there
C5_Witness ==
  /\ Exited /\ err.kind = "process"
  /\ Len(spawned) = 3
  /\ Under(<<"package.json">>) \in DOMAIN files
  /\ Under(<<"node_modules">>) \in dirs

-----------------------------------------------------------------------------
\* C6: the stages of a run begin in the fixed order check, generator,
\* install (only with install enabled), folders, files, scaffold's message,
\* the CLI's message, each after the one before it has completed: no stage
\* begins while a child is alive or a mkdirp is in flight, the files begin
\* with every folder made, and scaffold's message comes after all the files.
StageOrder ==
  <<"check", "generator", "install", "folders", "files", "scaffoldMsg", "cliMsg">>

Rank(stage) == CHOOSE i \in DOMAIN StageOrder : StageOrder[i] = stage

C6_StageOrder ==
  /\ \A i \in DOMAIN stages : stages[i] \in Range(StageOrder)
  /\ \A i, j \in DOMAIN stages : i < j => Rank(stages[i]) < Rank(stages[j])
  /\ \A i \in DOMAIN stages :
       \A k \in 1..Rank(stages[i]) - 1 :
         (StageOrder[k] = "install" /\ ~req.install) \/ StageOrder[k] \in Range(stages)
  /\ "install" \in Range(stages) => req.install
  /\ alive # {} => Last(stages) \in {"generator", "install"}
  /\ (alive # {} /\ Last(stages) = "generator") => Len(spawned) = 1
  /\ (pending # {} /\ err = NoErr) => Last(stages) = "folders"
  /\ "files" \in Range(stages) => AllFoldersMade /\ alive = {}
  /\ (pending # {} \/ alive # {}) => written = <<>> /\ stdout = <<>>
  /\ "scaffoldMsg" \in Range(stages) =>
       /\ AllFilesWritten
       /\ stdout[1] = ScaffoldMessage
  /\ "cliMsg" \in Range(stages) =>
       /\ Len(stdout) = 2
       /\ stdout[2][1] = "Done. Next:"
  /\ Len(stdout) = Cardinality(Range(stages) \cap {"scaffoldMsg", "cliMsg"})

\* a run with install enabled has gone through all seven stages
C6_Witness ==
  /\ Exited /\ stages = StageOrder

-----------------------------------------------------------------------------
\* C7: at most one child process is alive at any time; the children of a
\* run are started in the order generator, install, add sass, add the four
\* packages, each only once the one before it has exited with success; the
\* three install sub-steps run in the target directory.
ChildOrder == <<"generator", "install", "addDev", "addDeps">>

C7_OneChildAtATime ==
  [][ /\ Cardinality(alive') <= 1
      /\ Len(spawned') <= Len(ChildOrder)
      /\ \A i \in DOMAIN spawned' : spawned'[i].step = ChildOrder[i]
      /\ \A c \in Range(spawned') : IsInstallStep(c) => c.cwd = Target
      /\ alive' \subseteq (IF spawned' = <<>> THEN {} ELSE {Last(spawned')})
      /\ (spawned' # spawned /\ run' = run) =>
           /\ alive = {}
           /\ err = NoErr
           /\ awaited = None
           /\ spawned' = Append(spawned, Last(spawned'))
    ]_vars

\* the last install sub-step is alive, alone, in the target directory
C7_Witness ==
  /\ Len(spawned) = 4
  /\ alive = {spawned[4]}
  /\ spawned[4].args = <<"add", "@reduxjs/toolkit", "react-redux", "axios", "react-hot-toast">>

-----------------------------------------------------------------------------
\* C8: whenever scaffold has returned with success, and whenever a message
\* of success has been printed or the process has ended with status 0, every
\* file of Step 5 is on disk under the target directory, written by this run
\* with content.
NamedFiles ==
  { <<"src", "App.jsx">>, <<"src", "main.jsx">>, <<"src", "redux", "store.js">>,
    <<"src", "styles", "_main.scss">>, <<"public", "config.json">> }

C8_SuccessMeansAllFiles ==
  (ScaffoldSucceeded \/ stdout # <<>> \/ (Exited /\ exitCode = 0)) =>
    /\ AllFilesWritten
    /\ \A f \in NamedFiles : WrittenNonEmpty(Under(f))
    /\ Len(written) = Cardinality(StepFiveFiles)
    /\ pc \notin {"write", "catch"}

\* a run has ended with status 0 over a project the generator had filled:
\* the generator's App.jsx and main.jsx are replaced
C8_Witness ==
  /\ Exited /\ exitCode = 0
  /\ spawned # <<>>
  /\ files[Under(<<"src", "main.jsx">>)].by = "scaffold"
  /\ files[Under(<<"package.json">>)].by = "generator"

-----------------------------------------------------------------------------
\* C9: every file write is issued into a directory that a mkdirp of this
\* run has already ensured, one of src, its sub-directories __tests__,
\* helpers, hooks, redux, external, styles, styles/abstract, or public.
ClaimedParents ==
  { <<"src">>, <<"src", "__tests__">>, <<"src", "helpers">>, <<"src", "hooks">>,
    <<"src", "redux">>, <<"src", "external">>, <<"src", "styles">>,
    <<"src", "styles", "abstract">>, <<"public">> }

C9_ParentsEnsured ==
  /\ pc = "write" =>
       /\ Parent(FilePath(req.appName, idx)) \in ensured
       /\ Parent(FilePath(req.appName, idx)) \in dirs
       /\ Parent(FilePath(req.appName, idx)) \in {Under(d) : d \in ClaimedParents}
  /\ \A f \in Range(written) :
       Parent(f) \in ensured /\ Parent(f) \in {Under(d) : d \in ClaimedParents}

\* the hook file is about to be written below a generator that made no src
C9_Witness ==
  /\ pc = "write"
  /\ FilePath(req.appName, idx) = Under(<<"src", "hooks", "useGlobalHook.js">>)
  /\ Under(<<"src", "main.jsx">>) \notin DOMAIN files

-----------------------------------------------------------------------------
\* C10: the install sub-steps run the raw package-manager value: the same
\* executable as the generator for each of the four supported values, while
\* for any other value the generator runs npm and the install sub-steps run
\* the value itself; the CLI's final message names the raw value too.
Supported == {"npm", "pnpm", "yarn", "bun"}

C10_InstallUsesRawValue ==
  /\ \A i \in DOMAIN spawned :
       IsInstallStep(spawned[i]) =>
         /\ req.install
         /\ spawned[i].cmd = req.packageManager
         /\ req.packageManager \in Supported => spawned[i].cmd = spawned[1].cmd
         /\ req.packageManager \notin Supported =>
              spawned[1].cmd = "npm" /\ spawned[i].cmd # spawned[1].cmd
  /\ \A m \in Range(stdout) :
       m[1] = "Done. Next:" => m[4] = req.packageManager /\ m[3] = req.appName

\* with a value outside the four, npm has generated and the value itself
\* has been run for all three install sub-steps; the CLI has named it
C10_Witness ==
  /\ req.packageManager = "deno"
  /\ Len(spawned) = 4
  /\ spawned[1].cmd = "npm" /\ spawned[4].cmd = "deno"
  /\ Exited /\ exitCode = 0

====
